---- MODULE Spec2Model ----
(***************************************************************************)
(* Model of the AI interview assistant: the countdown timer hook           *)
(* (useTimer), the interview reducer and its provider (InterviewContext),  *)
(* the interviewee tab that couples both (IntervieweeTab), and the         *)
(* backend routes that score answers and store completed interviews.       *)
(***************************************************************************)
EXTENDS Integers, Sequences, FiniteSets, TLC

VARIABLES
    timer,              \* useTimer state: [timeLeft, isRunning, hasExpired]
    timerLog,           \* observer: the last startTimer(d) and what happened since
    intervals,          \* useTimer: intervalRef.current and the intervals not cleared
    inMemoryCandidates, \* backend store of completed interviews
    request,            \* the last request body posted, or form values submitted
    response,           \* the last response sent, or error shown by the form
    state,              \* InterviewProvider: the reducer state
    localStorage,       \* the 'interviewData' item, parsed; None when absent
    loading,            \* IntervieweeTab useState
    currentAnswer,      \* IntervieweeTab useState
    timeoutHandledRef,  \* IntervieweeTab useRef
    interviewStarted,   \* IntervieweeTab useState
    submitCall,         \* the submit-answer request awaited by handleSubmitAnswer
    startCalls,         \* start-interview requests sent and not yet delivered
    uploadCall,         \* the upload-resume request awaited by handleResumeUpload
    startTimeouts,      \* pending setTimeout callbacks that (re)start the timer
    completeCalls,      \* pending complete-interview timeouts and requests
    history,            \* observer: what happened to each question of the session
    sessions,           \* observer: interviews started so far
    chatbot,            \* ChatbotCollector useState: [currentFieldIndex, isCompleted]
    dashboard           \* InterviewerTab useState: [candidates, searchText, sortOrder],
                        \* and the fetchCandidates call awaiting its response

timerVars == <<timer, timerLog, intervals>>
backendVars == <<inMemoryCandidates, request, response>>
tabVars == <<loading, currentAnswer, timeoutHandledRef, interviewStarted,
             submitCall, startCalls, uploadCall, startTimeouts, completeCalls>>
appVars == <<state, localStorage, loading, currentAnswer, timeoutHandledRef,
             interviewStarted, submitCall, startCalls, uploadCall, startTimeouts, completeCalls, history,
             sessions, chatbot, dashboard>>
vars == <<timer, timerLog, intervals, inMemoryCandidates, request, response, state,
          localStorage, loading, currentAnswer, timeoutHandledRef,
          interviewStarted, submitCall, startCalls, uploadCall, startTimeouts, completeCalls, history,
          sessions, chatbot, dashboard>>

--------------------------------------------------------------------------
(* Bounds *)

\* Largest duration handed to the timer in the timer-only specification.
MaxTime == 8

\* Number of complete-interview calls in the backend-only specification.
MaxCalls == 2

\* Interviews started; no answer is submitted once MaxOutcomes outcomes
\* are recorded.
MaxSessions == 1
MaxOutcomes == 6

\* The candidate types only in the last ActWindow seconds of a countdown.
ActWindow == 2

\* A request is answered, or fails, before the timer has ticked MaxDelay
\* times more.
MaxDelay == 2

\* Start-interview requests in flight, those of reloaded pages included.
MaxStartCalls == 2

--------------------------------------------------------------------------
(* Values *)

\* null / no value
None == [none |-> TRUE]

\* null in JavaScript: the value of a field is None, whatever the kind of
\* value the field holds otherwise.
isNull(v) == ToString(v) = ToString(None)

\* undefined, where the code tells it from null: the score of a reply that
\* has no score.
undefined == [undefined |-> TRUE]

isUndefined(v) == ToString(v) = ToString(undefined)

\* The candidate details entered in the start form.
Candidates == {[name |-> "Ann", email |-> "ann@x.io", phone |-> "555"]}

\* The random indices drawn by generateQuestions that are explored.
FixedPicks == [i \in 1..6 |-> 0]

\* ChatbotCollector after construction
ChatbotCollector == [currentFieldIndex |-> 0, isCompleted |-> FALSE]

\* InterviewerTab after construction
InterviewerTab ==
    [candidates |-> <<>>, searchText |-> "", sortOrder |-> "desc", fetching |-> None]

--------------------------------------------------------------------------
(* useTimer *)

\* An optional argument is a sequence: <<>> when omitted, <<t>> when given.
NoArg == <<>>
Arg(t) == <<t>>

\* useState(initialTime = 0), useState(false), useState(false)
useTimer == [timeLeft |-> 0, isRunning |-> FALSE, hasExpired |-> FALSE]

startTimer(t, time) ==
    [timeLeft   |-> IF time # NoArg THEN time[1] ELSE t.timeLeft,
     isRunning  |-> TRUE,
     hasExpired |-> FALSE]

stopTimer(t) == [t EXCEPT !.isRunning = FALSE]

resetTimer(t, time) ==
    [timeLeft   |-> IF time # NoArg THEN time[1] ELSE 0,
     isRunning  |-> FALSE,
     hasExpired |-> FALSE]

\* The condition under which the effect schedules an interval.
intervalScheduled(t) == t.isRunning /\ t.timeLeft > 0

\* useRef(null), no interval scheduled; null is 0 and interval ids are 1, 2, ...
NoIntervals == [ref |-> 0, live |-> {}]

\* setInterval returns an id that no scheduled interval has.
newInterval(live) == CHOOSE id \in 1..(Cardinality(live) + 1) : id \notin live

\* An effect whose effect function does not return a cleanup and does not
\* clear when it schedules nothing
intervalEffectNoCleanup(iv, prev, next) ==
    IF prev.isRunning = next.isRunning /\ prev.timeLeft = next.timeLeft
    THEN iv
    ELSE IF intervalScheduled(next)
         THEN [ref |-> newInterval(iv.live), live |-> iv.live \cup {newInterval(iv.live)}]
         ELSE iv

\* useEffect(..., [isRunning, timeLeft]) in the render that takes the timer
\* from prev to next: nothing when neither dependency changed; otherwise the
\* cleanup of the previous run, clearInterval(intervalRef.current), and then
\* either setInterval into intervalRef.current or clearInterval again.
intervalEffect(iv, prev, next) ==
    IF prev.isRunning = next.isRunning /\ prev.timeLeft = next.timeLeft
    THEN iv
    ELSE LET live == iv.live \ {iv.ref}
         IN IF intervalScheduled(next)
            THEN [ref |-> newInterval(live), live |-> live \cup {newInterval(live)}]
            ELSE [ref |-> iv.ref, live |-> live]

\* A tick whose test is prev <= 0: the countdown reaches 0 without expiring.
tickLate(t) ==
    IF t.timeLeft <= 0
    THEN [timeLeft |-> 0, isRunning |-> FALSE, hasExpired |-> TRUE]
    ELSE [t EXCEPT !.timeLeft = t.timeLeft - 1]

\* The interval callback: setTimeLeft(prev => ...)
tick(t) ==
    IF t.timeLeft <= 1
    THEN [timeLeft |-> 0, isRunning |-> FALSE, hasExpired |-> TRUE]
    ELSE [t EXCEPT !.timeLeft = t.timeLeft - 1]

--------------------------------------------------------------------------
(* Observer of the timer: which startTimer(d) is in force, the ticks and   *)
(* raised expiries since, and whether startTimer() was called again        *)
(* without a duration after the expiry.  d = <<>> when no startTimer(d)    *)
(* is in force.                                                            *)

NoLog == [d |-> NoArg, ticks |-> 0, expiries |-> 0, restarted |-> FALSE]

logStart(l, time) ==
    IF time # NoArg
    THEN [d |-> time, ticks |-> 0, expiries |-> 0, restarted |-> FALSE]
    ELSE [l EXCEPT !.restarted = l.restarted \/ l.expiries >= 1]

logTick(l, t) ==
    [l EXCEPT !.ticks = IF l.d # NoArg THEN l.ticks + 1 ELSE l.ticks,
              !.expiries = IF tick(t).hasExpired /\ ~t.hasExpired
                           THEN l.expiries + 1 ELSE l.expiries]

--------------------------------------------------------------------------
(* InterviewContext: initialState and interviewReducer *)

initialState ==
    [candidateInfo  |-> None,
     resumeData     |-> None,
     missingFields  |-> <<>>,
     chatbotActive  |-> FALSE,
     interviewState |->
        [isStarted            |-> FALSE,
         isComplete           |-> FALSE,
         isPaused             |-> FALSE,
         questions            |-> <<>>,
         currentQuestionIndex |-> 0,
         answers              |-> <<>>,
         scores               |-> <<>>,
         finalScore           |-> None,
         summary              |-> None],
     candidates     |-> <<>>]

START_INTERVIEW(s, questions, candidateInfo) ==
    [s EXCEPT !.candidateInfo = candidateInfo,
              !.interviewState.isStarted = TRUE,
              !.interviewState.isPaused = FALSE,
              !.interviewState.questions = questions,
              !.interviewState.currentQuestionIndex = 0,
              !.interviewState.answers = <<>>,
              !.interviewState.scores = <<>>]

SUBMIT_ANSWER(s, answer, score) ==
    [s EXCEPT !.interviewState.answers = Append(@, answer),
              !.interviewState.scores = Append(@, score)]

\* The cases below are dispatched only by the context's actions
\* setCandidateInfo, pauseInterview, resumeInterview, timeoutAnswer and
\* updateCandidates, which no rendered component calls.
SET_CANDIDATE_INFO(s, candidateInfo) ==
    [s EXCEPT !.candidateInfo = candidateInfo,
              !.chatbotActive = FALSE,
              !.missingFields = <<>>]

PAUSE_INTERVIEW(s) == [s EXCEPT !.interviewState.isPaused = TRUE]

RESUME_INTERVIEW(s) == [s EXCEPT !.interviewState.isPaused = FALSE]

TIMEOUT_ANSWER(s) ==
    [s EXCEPT !.interviewState.answers = Append(@, ""),
              !.interviewState.scores = Append(@, 0)]

UPDATE_CANDIDATES(s, candidates) == [s EXCEPT !.candidates = candidates]

NEXT_QUESTION(s) ==
    [s EXCEPT !.interviewState.currentQuestionIndex = @ + 1]

\* newCandidate spreads state.candidateInfo (nothing when it is null) between
\* its id and its other fields; the id stands for the value of Date.now().
COMPLETE_INTERVIEW(s, finalScore, summary) ==
    LET fields ==
            [id         |-> "Date.now()",
             finalScore |-> finalScore,
             summary    |-> summary,
             answers    |-> s.interviewState.answers,
             scores     |-> s.interviewState.scores,
             questions  |-> s.interviewState.questions]
        newCandidate ==
            IF s.candidateInfo = None THEN fields ELSE fields @@ s.candidateInfo
    IN [s EXCEPT !.interviewState.isComplete = TRUE,
                 !.interviewState.finalScore = finalScore,
                 !.interviewState.summary = summary,
                 !.candidates = Append(@, newCandidate)]

RESET_INTERVIEW(s) == [initialState EXCEPT !.candidates = s.candidates]

\* { ...state, ...action.payload }: every key of the payload replaces the
\* state's, and the state's other keys stay.
LOAD_SAVED_DATA(s, payload) ==
    [k \in DOMAIN s \cup DOMAIN payload |->
        IF k \in DOMAIN payload THEN payload[k] ELSE s[k]]

\* The question at currentQuestionIndex (0-based), None when out of range.
currentQuestionOf(s) ==
    LET i == s.interviewState.currentQuestionIndex
    IN IF i < Len(s.interviewState.questions)
       THEN s.interviewState.questions[i + 1] ELSE None

--------------------------------------------------------------------------
(* Backend: question generation, summary, store, complete-interview *)

PoolSize == 10

TimeLimit(difficulty) ==
    CASE difficulty = "easy"   -> 20
      [] difficulty = "medium" -> 60
      [] difficulty = "hard"   -> 120

\* Questions whose id is the difficulty alone
generateQuestionsSameId(picks) ==
    [i \in 1..6 |->
        LET difficulty == CASE i <= 2 -> "easy" [] i <= 4 -> "medium" [] OTHER -> "hard"
        IN [id         |-> <<difficulty, 1>>,
            question   |-> <<difficulty, picks[i]>>,
            difficulty |-> difficulty,
            timeLimit  |-> TimeLimit(difficulty)]]

\* picks[i] is the index Math.floor(Math.random() * pool.length) drawn for
\* the i-th question; the question text and category come from the pool.
generateQuestions(picks) ==
    [i \in 1..6 |->
        LET difficulty == CASE i <= 2 -> "easy" [] i <= 4 -> "medium" [] OTHER -> "hard"
            n == ((i - 1) % 2) + 1
        IN [id         |-> <<difficulty, n>>,
            question   |-> <<difficulty, picks[i]>>,
            difficulty |-> difficulty,
            timeLimit  |-> TimeLimit(difficulty)]]

\* A number plus null is the number: null converts to 0.
toNumber(score) == IF isNull(score) THEN 0 ELSE score

RECURSIVE Sum(_)
\* scores.reduce((sum, score) => sum + score, 0)
Sum(scores) ==
    IF Len(scores) = 0 THEN 0 ELSE toNumber(scores[1]) + Sum(Tail(scores))

\* Math.floor in place of Math.round
MathFloor(num, den) == num \div den

\* Math.round(num / den) for num >= 0 and den > 0: the nearest integer,
\* a half rounding towards +Infinity.
MathRound(num, den) == (2 * num + den) \div (2 * den)

generateAISummary(candidateInfo, scores) ==
    LET avgScore == MathRound(Sum(scores), Len(scores))
    IN [name      |-> candidateInfo.name,
        avgScore  |-> avgScore,
        level     |-> IF avgScore >= 80 THEN "Excellent"
                      ELSE IF avgScore >= 60 THEN "Good" ELSE "Needs Improvement",
        potential |-> IF avgScore >= 70 THEN "strong potential" ELSE "room for growth"]

\* The candidateData object built by POST /api/complete-interview.
candidateData(body) ==
    [name       |-> body.candidateInfo.name,
     email      |-> body.candidateInfo.email,
     phone      |-> body.candidateInfo.phone,
     finalScore |-> MathRound(Sum(body.scores), Len(body.scores)),
     summary    |-> generateAISummary(body.candidateInfo, body.scores),
     answers    |-> body.answers,
     scores     |-> body.scores,
     questions  |-> body.questions]

\* saveCandidate: candidate.save() or inMemoryCandidates.push(candidate)
saveCandidate(store, data) == Append(store, data)

\* The JSON answer of POST /api/complete-interview; saved = FALSE when
\* saveCandidate throws and the catch block answers 500.
completeInterviewResponse(body, saved) ==
    IF saved
    THEN [success    |-> TRUE,
          finalScore |-> candidateData(body).finalScore,
          summary    |-> candidateData(body).summary]
    ELSE [success |-> FALSE, error |-> "Failed to complete interview"]

--------------------------------------------------------------------------
(* Starting an interview: the form's rules and POST /api/start-interview *)

\* The value of a field that was never set (undefined or null), as a string
\* that no input equals.
Absent == "<undefined>"

\* A rule that lets the empty string pass
missingEmptyAllowed(v) == v = Absent

\* A value that fails a { required: true } rule, and for which !v holds:
\* absent or the empty string.
missing(v) == v = Absent \/ v = ""

\* The characters of the emails the form is given
EmailChars ==
    ("ann" :> <<"a", "n", "n">>) @@
    ("ann@x.io" :> <<"a", "n", "n", "@", "x", ".", "i", "o">>)

\* The rule { type: 'email' }: something before an @, and after it a domain
\* with a dot inside.
isEmail(v) ==
    LET c == EmailChars[v]
    IN \E i \in 2..Len(c) :
        /\ c[i] = "@"
        /\ \A k \in 1..Len(c) : c[k] = "@" => k = i
        /\ \E j \in (i + 2)..(Len(c) - 1) : c[j] = "."

\* form.validateFields() under the rules of the three Form.Items
validateFields(values) ==
    /\ ~missing(values.name)
    /\ ~missing(values.email) /\ isEmail(values.email)
    /\ ~missing(values.phone)

\* The JSON answer of POST /api/start-interview
startInterviewResponse(body, picks) ==
    IF \/ body.candidateInfo = None
       \/ missing(body.candidateInfo.name)
       \/ missing(body.candidateInfo.email)
       \/ missing(body.candidateInfo.phone)
    THEN [success |-> FALSE, error |-> "Missing required candidate information"]
    ELSE [success |-> TRUE, questions |-> generateQuestions(picks),
          candidateInfo |-> body.candidateInfo]

\* What the three fields of the start form may hold when it is submitted.
FormValues ==
    [name : {Absent, "", "Ann"}, email : {Absent, "", "ann", "ann@x.io"},
     phone : {Absent, "", "555"}]

--------------------------------------------------------------------------
(* Backend: scoring and POST /api/submit-answer *)

\* answer.trim() on the answers the model types
trim(answer) == IF answer = "   " THEN "" ELSE answer

\* Values of Math.floor(Math.random() * 40) + 30 that are explored.
FallbackScores == {45}

\* Scores the text-generation service answers with when it answers.
ServiceScores == {45}

\* What the external service does with one prompt: it throws (ok = FALSE),
\* or it answers JSON with a score, and with or without a non-empty
\* feedback and a non-empty sampleAnswer.
ServiceOutcomes ==
    {[ok |-> TRUE, score |-> sc, feedback |-> fb, sampleAnswer |-> fb] :
        sc \in ServiceScores, fb \in BOOLEAN}
    \cup {[ok |-> FALSE, score |-> 0, feedback |-> FALSE, sampleAnswer |-> FALSE]}

\* The service answers JSON that has no score: aiResponse.score is undefined.
UnscoredOutcomes ==
    {[ok |-> TRUE, score |-> undefined, feedback |-> fb, sampleAnswer |-> fb] :
        fb \in BOOLEAN}

\* generateAnswerFeedback with the service's feedback and sample answer:
\* the branch taken when both are non-empty calls generateSuggestions, which
\* is defined nowhere, so it throws a ReferenceError.
generateAnswerFeedbackThrows(service) == service.feedback /\ service.sampleAnswer

\* scoreAnswer: 0 for a blank answer; the service's score when it answers
\* with parseable JSON and building the feedback does not throw; the random
\* fallback of the catch block otherwise.
scoreAnswer(answer, service, random) ==
    IF trim(answer) = "" THEN 0
    ELSE IF service.ok /\ ~generateAnswerFeedbackThrows(service) THEN service.score
    ELSE random

\* The JSON answer of POST /api/submit-answer, or the failure of the request
\* itself (delivered = FALSE: fetch rejects, or the body is not the route's).
submitAnswerResponse(body, service, random, delivered) ==
    IF ~delivered THEN [success |-> FALSE, error |-> "Failed to fetch"]
    ELSE IF body.question = None THEN [success |-> FALSE, error |-> "Question is required"]
    ELSE IF body.candidateInfo = None THEN [success |-> FALSE, error |-> "Candidate info is required"]
    ELSE [success |-> TRUE, score |-> scoreAnswer(body.answer, service, random)]

\* POST /api/complete-interview throws before saving when an answer has no
\* question at its index (question.difficulty of undefined).
completeInterviewThrows(body) == Len(body.answers) > Len(body.questions)

--------------------------------------------------------------------------
(* IntervieweeTab *)

IS == state.interviewState

currentQuestion == currentQuestionOf(state)

\* Observer of the session: outcomes[q + 1] counts the outcomes recorded while
\* resolving question q; failed is <<q>> from a failed submission of question
\* q until the timer is next restarted.
NoHistory == [outcomes |-> [q \in 1..7 |-> 0], failed |-> <<>>]

recordOutcome(h, q) == [h EXCEPT !.outcomes[q + 1] = @ + 1]

\* JSON.parse(JSON.stringify(scores)): an undefined element of an array is
\* written as null; numbers and null are read back as they were.
jsonScores(scores) ==
    [i \in 1..Len(scores) |->
        IF isUndefined(scores[i]) THEN None ELSE scores[i]]

\* JSON.parse(JSON.stringify(state)): the strings, numbers, booleans, nulls
\* and arrays of the state are read back as they were; the scores of the
\* session and of the candidates kept in the state are arrays whose elements
\* may be undefined.
jsonState(s) ==
    [s EXCEPT !.interviewState.scores = jsonScores(@),
              !.candidates = [i \in 1..Len(@) |->
                                IF "scores" \in DOMAIN @[i]
                                THEN [@[i] EXCEPT !.scores = jsonScores(@)]
                                ELSE @[i]]]

\* useEffect(() => localStorage.setItem('interviewData', JSON.stringify(state)), [state])
\* localStorage holds what JSON.parse reads back from the stored text.
saveEffect(prev, next) == jsonState(next)

\* useEffect "start timer when question changes": runs when one of its
\* dependencies changed, and schedules a 300 ms timeout that restarts the timer.
startTimerEffect(prev, next, wasStarted, nowStarted, timeouts) ==
    LET o == prev.interviewState
        n == next.interviewState
        changed == \/ o.currentQuestionIndex # n.currentQuestionIndex
                   \/ o.isStarted # n.isStarted
                   \/ o.isComplete # n.isComplete
                   \/ wasStarted # nowStarted
    IN IF changed /\ n.isStarted /\ ~n.isComplete /\ nowStarted
          /\ currentQuestionOf(next) # None
       THEN Append(timeouts, [timeLimit |-> currentQuestionOf(next).timeLimit,
                              aged |-> FALSE])
       ELSE timeouts

\* The guard of the timer-expiry effect.  The effect runs in the commit that
\* makes the guard true, before any other callback is served.
timerExpiredPending ==
    timer.hasExpired /\ IS.isStarted /\ ~IS.isComplete /\ ~timeoutHandledRef

\* The body of a complete-interview request
completeBody(candidateInfo, answers, scores, questions) ==
    [candidateInfo |-> candidateInfo, answers |-> answers,
     scores |-> jsonScores(scores), questions |-> questions]

\* setTimeout(async () => { ... fetch('/api/complete-interview') ... }, 500)
\* of handleSubmitAnswer, and the same with 100 of the expiry effect: the
\* timeout is scheduled, and the request is sent when it fires.
newCompleteCall(body) ==
    [body |-> body, stage |-> "scheduled", listening |-> TRUE, response |-> None,
     age |-> 0]

\* A pending request is answered, or dropped
replace(calls, i, call) == [calls EXCEPT ![i] = call]

remove(calls, i) == SubSeq(calls, 1, i - 1) \o SubSeq(calls, i + 1, Len(calls))

\* The page that sent the requests is gone: nothing awaits their answers
abandon(calls) == [i \in 1..Len(calls) |-> [calls[i] EXCEPT !.listening = FALSE]]

\* The question card is rendered
cardShown == IS.isStarted /\ ~IS.isComplete /\ currentQuestion # None

Answers == {"", "   ", "answer"}

PickSample == {FixedPicks}

\* The start form is rendered: no interview started or complete, and the
\* chatbot is not collecting missing fields
formShown ==
    /\ ~IS.isStarted /\ ~IS.isComplete
    /\ ~(state.chatbotActive /\ Len(state.missingFields) > 0)

newStartCall(body) ==
    [body |-> body, stage |-> "sent", listening |-> TRUE, response |-> None]

\* handleStartInterview up to the await of the start-interview request.
\* The form calls it with values its rules accept: the button shows loading
\* and the request is sent.  With values the rules reject nothing is set and
\* nothing is sent.
startInterviewSent(max) ==
    /\ ~timerExpiredPending
    /\ formShown /\ ~loading
    /\ Len(startCalls) < MaxStartCalls
    /\ sessions < max
    /\ \E values \in FormValues :
        IF validateFields(values)
        THEN /\ startCalls' = Append(startCalls,
                                     newStartCall([candidateInfo |-> values]))
             /\ loading' = TRUE
        ELSE UNCHANGED <<startCalls, loading>>
    /\ UNCHANGED <<timerVars, backendVars, state, localStorage, currentAnswer,
                   timeoutHandledRef, interviewStarted, submitCall, uploadCall,
                   startTimeouts, completeCalls, history, sessions, chatbot,
                   dashboard>>

handleStartInterviewSent == startInterviewSent(MaxSessions)

\* POST /api/start-interview serves a request that was sent, whether or not
\* the page that sent it still awaits the answer.
startInterviewRoute ==
    /\ \E i \in 1..Len(startCalls), picks \in PickSample :
        LET call == startCalls[i]
            data == startInterviewResponse(call.body, picks)
        IN /\ call.stage = "sent"
           /\ request' = call.body
           /\ response' = data
           /\ startCalls' =
                IF call.listening
                THEN replace(startCalls, i,
                        [call EXCEPT !.stage = "answered", !.response = data])
                ELSE remove(startCalls, i)
    /\ UNCHANGED <<timerVars, inMemoryCandidates, state, localStorage, loading,
                   currentAnswer, timeoutHandledRef, interviewStarted, submitCall,
                   uploadCall, startTimeouts, completeCalls, history, sessions,
                   chatbot, dashboard>>

\* handleStartInterview from the response on: with success startInterview is
\* dispatched on the state of that moment and the first timer start is
\* scheduled; without it the error is shown; finally loading is cleared.
handleStartInterviewAnswered ==
    /\ ~timerExpiredPending
    /\ \E i \in 1..Len(startCalls) :
        LET call == startCalls[i]
            data == call.response
            next == START_INTERVIEW(state, data.questions, call.body.candidateInfo)
        IN /\ call.stage = "answered"
           /\ IF data.success
              THEN /\ state' = next
                   /\ interviewStarted' = TRUE
                   /\ startTimeouts' =
                        Append(startTimerEffect(state, next, interviewStarted, TRUE,
                                                startTimeouts),
                               [timeLimit |-> data.questions[1].timeLimit, aged |-> FALSE])
                   /\ localStorage' = saveEffect(state, next)
                   /\ sessions' = sessions + 1
                   /\ history' = NoHistory
              ELSE UNCHANGED <<state, interviewStarted, startTimeouts, localStorage,
                               sessions, history>>
           /\ startCalls' = remove(startCalls, i)
    /\ loading' = FALSE
    /\ UNCHANGED <<timerVars, backendVars, currentAnswer, timeoutHandledRef,
                   submitCall, uploadCall, completeCalls, chatbot, dashboard>>

\* handleStartInterview when fetch rejects or response.json() throws: the
\* catch shows the error, nothing is dispatched, finally loading is cleared.
handleStartInterviewFailed ==
    /\ ~timerExpiredPending
    /\ \E i \in 1..Len(startCalls) :
        /\ startCalls[i].listening
        /\ startCalls' = remove(startCalls, i)
    /\ loading' = FALSE
    /\ UNCHANGED <<timerVars, backendVars, state, localStorage, currentAnswer,
                   timeoutHandledRef, interviewStarted, submitCall, uploadCall,
                   startTimeouts, completeCalls, history, sessions, chatbot,
                   dashboard>>

\* setTimeout(() => { resetTimer(limit); startTimer(limit); timeoutHandledRef.current = false })
startTimeoutFires ==
    /\ ~timerExpiredPending
    /\ startTimeouts # <<>>
    /\ LET limit == Arg(Head(startTimeouts).timeLimit)
       IN /\ timer' = startTimer(resetTimer(timer, limit), limit)
          /\ timerLog' = logStart(NoLog, limit)
          /\ intervals' = intervalEffect(intervals, timer,
                                         startTimer(resetTimer(timer, limit), limit))
    /\ timeoutHandledRef' = FALSE
    /\ startTimeouts' = Tail(startTimeouts)
    /\ history' = [history EXCEPT !.failed = <<>>]
    /\ UNCHANGED <<backendVars, state, localStorage, loading, currentAnswer,
                   interviewStarted, submitCall, startCalls, uploadCall, completeCalls, sessions,
                   chatbot, dashboard>>

age(timeouts) == [i \in 1..Len(timeouts) |-> [timeouts[i] EXCEPT !.aged = TRUE]]

\* A pending timeout of at most 500 ms outlives at most one 1000 ms tick.
noAgedTimeout ==
    \A i \in 1..Len(startTimeouts) : ~startTimeouts[i].aged

older(calls) == [i \in 1..Len(calls) |-> [calls[i] EXCEPT !.age = @ + 1]]

\* No request has been waiting for MaxDelay ticks.
noOverdueCall ==
    /\ submitCall # None => submitCall.age < MaxDelay
    /\ \A i \in 1..Len(completeCalls) : completeCalls[i].age < MaxDelay

timerTick ==
    /\ intervals.live # {}
    /\ ~timerExpiredPending
    /\ noAgedTimeout
    /\ noOverdueCall
    /\ timer' = tick(timer)
    /\ timerLog' = logTick(timerLog, timer)
    /\ intervals' = intervalEffect(intervals, timer, tick(timer))
    /\ startTimeouts' = age(startTimeouts)
    /\ submitCall' = IF submitCall = None THEN None
                     ELSE [submitCall EXCEPT !.age = @ + 1]
    /\ UNCHANGED <<startCalls, uploadCall>>
    /\ completeCalls' = older(completeCalls)
    /\ UNCHANGED <<backendVars, state, localStorage, loading, currentAnswer,
                   timeoutHandledRef, interviewStarted, history, sessions,
                   chatbot, dashboard>>

\* A timeout that records what was typed so far
timeoutOutcomeTyped == [answer |-> currentAnswer, score |-> 0]

\* actions.submitAnswer('', 0, timeoutFeedback)
timeoutOutcome == [answer |-> "", score |-> 0]

\* useEffect "handle timer completion"
timerExpiredEffect ==
    /\ timerExpiredPending
    /\ LET k == IS.currentQuestionIndex
           recorded == SUBMIT_ANSWER(state, timeoutOutcome.answer, timeoutOutcome.score)
           more == k < Len(IS.questions) - 1
           next == IF more THEN NEXT_QUESTION(recorded) ELSE recorded
       IN /\ state' = next
          /\ completeCalls' =
                IF more THEN completeCalls
                ELSE Append(completeCalls,
                        newCompleteCall(completeBody(state.candidateInfo, IS.answers,
                                                     IS.scores, IS.questions)))
          /\ startTimeouts' = startTimerEffect(state, next, interviewStarted,
                                               interviewStarted, startTimeouts)
          /\ localStorage' = saveEffect(state, next)
          /\ history' = recordOutcome(history, k)
    /\ timeoutHandledRef' = TRUE
    /\ currentAnswer' = ""
    /\ UNCHANGED <<timerVars, backendVars, loading, interviewStarted, submitCall, startCalls, uploadCall,
                   sessions,
                   chatbot, dashboard>>

\* onAnswerChange: the text area is disabled when timeLeft === 0
typeAnswer ==
    /\ ~timerExpiredPending
    /\ cardShown
    /\ timer.timeLeft # 0
    /\ timer.timeLeft <= ActWindow
    /\ \E text \in Answers \ {currentAnswer} : currentAnswer' = text
    /\ UNCHANGED <<timerVars, backendVars, state, localStorage, loading,
                   timeoutHandledRef, interviewStarted, submitCall, startCalls, uploadCall, startTimeouts,
                   completeCalls, history, sessions,
                   chatbot, dashboard>>

\* A Submit button that reacts to a blank answer
submitEnabledBlank == cardShown /\ timer.timeLeft # 0 /\ ~loading

\* The Submit button is disabled for a blank answer and when timeLeft === 0,
\* and does not react while loading.
submitEnabled == cardShown /\ trim(currentAnswer) # "" /\ timer.timeLeft # 0 /\ ~loading

\* handleSubmitAnswer up to the await of the submit-answer request
handleSubmitAnswer ==
    /\ ~timerExpiredPending
    /\ submitEnabled
    /\ Len(IS.answers) < MaxOutcomes
    /\ loading' = TRUE
    /\ submitCall' = [index    |-> IS.currentQuestionIndex,
                      body     |-> [question |-> currentQuestion,
                                    answer |-> currentAnswer,
                                    candidateInfo |-> state.candidateInfo],
                      closure  |-> state,
                      age      |-> 0]
    /\ UNCHANGED <<timerVars, backendVars, state, localStorage, currentAnswer,
                   timeoutHandledRef, interviewStarted, startCalls, uploadCall, startTimeouts,
                   completeCalls, history, sessions,
                   chatbot, dashboard>>

\* handleSubmitAnswer from the response on, the service having done what
\* one of the given outcomes says; state below the await is the state of the
\* render in which the button was clicked (the closure).
submitAnswerAnsweredBy(outcomes) ==
    /\ ~timerExpiredPending
    /\ submitCall # None
    /\ \E service \in outcomes, random \in FallbackScores, delivered \in BOOLEAN :
        LET data == submitAnswerResponse(submitCall.body, service, random, delivered)
            seen == submitCall.closure
            old == seen.interviewState
            recorded == SUBMIT_ANSWER(state, submitCall.body.answer, data.score)
            more == old.currentQuestionIndex < Len(old.questions) - 1
            next == IF more THEN NEXT_QUESTION(recorded) ELSE recorded
        IN IF data.success
           THEN /\ state' = next
                /\ currentAnswer' = ""
                /\ completeCalls' =
                     IF more THEN completeCalls
                     ELSE Append(completeCalls,
                            newCompleteCall(completeBody(seen.candidateInfo,
                                Append(old.answers, submitCall.body.answer),
                                Append(old.scores, data.score),
                                old.questions)))
                /\ startTimeouts' = startTimerEffect(state, next, interviewStarted,
                                                     interviewStarted, startTimeouts)
                /\ localStorage' = saveEffect(state, next)
                /\ history' = recordOutcome(history, submitCall.index)
           ELSE /\ history' = IF IS.isStarted
                               THEN [history EXCEPT !.failed = <<submitCall.index>>]
                               ELSE history
                /\ UNCHANGED <<state, currentAnswer, completeCalls, startTimeouts,
                               localStorage>>
    /\ loading' = FALSE
    /\ submitCall' = None
    /\ UNCHANGED <<startCalls, uploadCall>>
    /\ UNCHANGED <<timerVars, backendVars, timeoutHandledRef, interviewStarted,
                   sessions,
                   chatbot, dashboard>>

submitAnswerAnswered == submitAnswerAnsweredBy(ServiceOutcomes)

\* The 500 ms / 100 ms timeout fires: the complete-interview request is sent.
completeTimeoutFires ==
    /\ ~timerExpiredPending
    /\ \E i \in 1..Len(completeCalls) :
        /\ completeCalls[i].stage = "scheduled"
        /\ completeCalls' = replace(completeCalls, i,
                                [completeCalls[i] EXCEPT !.stage = "sent"])
    /\ UNCHANGED <<timerVars, backendVars, state, localStorage, loading,
                   currentAnswer, timeoutHandledRef, interviewStarted, submitCall,
                   startCalls, uploadCall, startTimeouts, history, sessions,
                   chatbot, dashboard>>

\* POST /api/complete-interview serves a request that was sent, whether or
\* not the page that sent it still awaits the answer.
completeInterviewRoute ==
    /\ \E i \in 1..Len(completeCalls), saves \in BOOLEAN :
        LET call == completeCalls[i]
            saved == saves /\ ~completeInterviewThrows(call.body)
        IN /\ call.stage = "sent"
           /\ ~timerExpiredPending \/ ~call.listening
           /\ inMemoryCandidates' =
                IF saved THEN saveCandidate(inMemoryCandidates, candidateData(call.body))
                ELSE inMemoryCandidates
           /\ completeCalls' =
                IF call.listening
                THEN replace(completeCalls, i,
                        [call EXCEPT !.stage = "answered",
                                     !.response = completeInterviewResponse(call.body, saved)])
                ELSE remove(completeCalls, i)
    /\ UNCHANGED <<timerVars, request, response, state, localStorage, loading,
                   currentAnswer, timeoutHandledRef, interviewStarted, submitCall, startCalls, uploadCall,
                   startTimeouts, history, sessions,
                   chatbot, dashboard>>

\* The continuation of the complete-interview request in either handler.
completeInterviewAnswered ==
    /\ ~timerExpiredPending
    /\ \E i \in 1..Len(completeCalls) :
        LET call == completeCalls[i]
            next == IF call.response.success
                    THEN COMPLETE_INTERVIEW(state, call.response.finalScore,
                                            call.response.summary)
                    ELSE state
        IN /\ call.stage = "answered"
           /\ state' = next
           /\ localStorage' = IF call.response.success
                              THEN saveEffect(state, next) ELSE localStorage
           /\ startTimeouts' = startTimerEffect(state, next, interviewStarted,
                                                interviewStarted, startTimeouts)
           /\ completeCalls' = remove(completeCalls, i)
    /\ UNCHANGED <<timerVars, backendVars, loading, currentAnswer,
                   timeoutHandledRef, interviewStarted, submitCall, startCalls, uploadCall, history,
                   sessions,
                   chatbot, dashboard>>

\* The complete-interview request of either handler fails on the page: fetch
\* rejects before the request is served, or the answer is lost or unreadable
\* after the route has served it and saved the candidate.  The catch logs
\* the error (and, in handleSubmitAnswer, shows it); nothing is dispatched.
completeInterviewFailed ==
    /\ ~timerExpiredPending
    /\ \E i \in 1..Len(completeCalls) :
        /\ completeCalls[i].stage \in {"sent", "answered"}
        /\ completeCalls[i].listening
        /\ completeCalls' = remove(completeCalls, i)
    /\ UNCHANGED <<timerVars, backendVars, state, localStorage, loading,
                   currentAnswer, timeoutHandledRef, interviewStarted, submitCall,
                   startCalls, uploadCall, startTimeouts, history, sessions,
                   chatbot, dashboard>>

\* InterviewComplete: handleStartNew / handleReturnHome / the auto-redirect:
\* localStorage.removeItem, RESET_INTERVIEW, then the save effect.
resetInterview ==
    /\ ~timerExpiredPending
    /\ IS.isComplete
    /\ state' = RESET_INTERVIEW(state)
    /\ localStorage' = saveEffect(state, RESET_INTERVIEW(state))
    /\ startTimeouts' = startTimerEffect(state, RESET_INTERVIEW(state),
                            interviewStarted, interviewStarted, startTimeouts)
    /\ history' = NoHistory
    /\ UNCHANGED <<timerVars, backendVars, loading, currentAnswer,
                   timeoutHandledRef, interviewStarted, submitCall, startCalls, uploadCall, completeCalls,
                   sessions,
                   chatbot, dashboard>>

\* The page is reloaded: every component is constructed anew, the provider's
\* load effect dispatches LOAD_SAVED_DATA with the stored snapshot, and the
\* callbacks and the pending timeouts of the old page are gone; requests
\* already sent are still served.
reload ==
    /\ LET next == IF ~isNull(localStorage)
                   THEN LOAD_SAVED_DATA(initialState, localStorage)
                   ELSE initialState
       IN /\ state' = next
          /\ localStorage' = saveEffect(initialState, next)
    /\ timer' = useTimer
    /\ timerLog' = NoLog
    /\ intervals' = NoIntervals
    /\ loading' = FALSE
    /\ currentAnswer' = ""
    /\ timeoutHandledRef' = FALSE
    /\ interviewStarted' = FALSE
    /\ submitCall' = None
    /\ startCalls' = abandon(SelectSeq(startCalls, LAMBDA c : c.stage = "sent"))
    /\ uploadCall' = None
    /\ startTimeouts' = <<>>
    /\ completeCalls' = abandon(SelectSeq(completeCalls, LAMBDA c : c.stage = "sent"))
    /\ chatbot' = ChatbotCollector
    /\ dashboard' = InterviewerTab
    /\ UNCHANGED <<backendVars, history, sessions>>

--------------------------------------------------------------------------
(* The interview: frontend, timer and backend together *)

\* The page after its first render: the save effect has stored initialState.
AppInit ==
    /\ state = initialState
    /\ localStorage = initialState
    /\ loading = FALSE
    /\ currentAnswer = ""
    /\ timeoutHandledRef = FALSE
    /\ interviewStarted = FALSE
    /\ submitCall = None
    /\ startCalls = <<>>
    /\ uploadCall = None
    /\ startTimeouts = <<>>
    /\ completeCalls = <<>>
    /\ history = NoHistory
    /\ sessions = 0
    /\ chatbot = ChatbotCollector
    /\ dashboard = InterviewerTab

Init ==
    /\ timer = useTimer
    /\ timerLog = NoLog
    /\ intervals = NoIntervals
    /\ inMemoryCandidates = <<>>
    /\ request = None
    /\ response = None
    /\ AppInit

Next ==
    \/ handleStartInterviewSent
    \/ startInterviewRoute
    \/ handleStartInterviewAnswered
    \/ handleStartInterviewFailed
    \/ startTimeoutFires
    \/ timerTick
    \/ timerExpiredEffect
    \/ typeAnswer
    \/ handleSubmitAnswer
    \/ submitAnswerAnswered
    \/ completeTimeoutFires
    \/ completeInterviewRoute
    \/ completeInterviewAnswered
    \/ completeInterviewFailed
    \/ resetInterview
    \/ reload

Spec == Init /\ [][Next]_vars

\* The interval and the timeouts fire, effects run, and requests are answered.
Fairness ==
    /\ WF_vars(timerTick)
    /\ WF_vars(startTimeoutFires)
    /\ WF_vars(startInterviewRoute)
    /\ WF_vars(handleStartInterviewAnswered)
    /\ WF_vars(timerExpiredEffect)
    /\ WF_vars(submitAnswerAnswered)
    /\ WF_vars(completeTimeoutFires)
    /\ WF_vars(completeInterviewRoute)
    /\ WF_vars(completeInterviewAnswered)

FairSpec == Spec /\ Fairness

\* One page from its load on: the interview without a reload
OnePageNext ==
    \/ handleStartInterviewSent
    \/ startInterviewRoute
    \/ handleStartInterviewAnswered
    \/ handleStartInterviewFailed
    \/ startTimeoutFires
    \/ timerTick
    \/ timerExpiredEffect
    \/ typeAnswer
    \/ handleSubmitAnswer
    \/ submitAnswerAnswered
    \/ completeTimeoutFires
    \/ completeInterviewRoute
    \/ completeInterviewAnswered
    \/ completeInterviewFailed
    \/ resetInterview

OnePageSpec == Init /\ [][OnePageNext]_vars /\ Fairness

--------------------------------------------------------------------------
(* Timer-only specification: any sequence of calls and ticks *)

TimerInit ==
    /\ timer = useTimer
    /\ timerLog = NoLog
    /\ intervals = NoIntervals
    /\ inMemoryCandidates = <<>>
    /\ request = None
    /\ response = None
    /\ AppInit

TimerArgs == {NoArg} \cup {Arg(t) : t \in 0..MaxTime}

CallStartTimer ==
    \E time \in TimerArgs :
        /\ timer' = startTimer(timer, time)
        /\ timerLog' = logStart(timerLog, time)
        /\ intervals' = intervalEffect(intervals, timer, startTimer(timer, time))
        /\ UNCHANGED <<backendVars, appVars>>

CallStopTimer ==
    /\ timer' = stopTimer(timer)
    /\ intervals' = intervalEffect(intervals, timer, stopTimer(timer))
    /\ UNCHANGED <<timerLog, backendVars, appVars>>

CallResetTimer ==
    \E time \in TimerArgs :
        /\ timer' = resetTimer(timer, time)
        /\ timerLog' = NoLog
        /\ intervals' = intervalEffect(intervals, timer, resetTimer(timer, time))
        /\ UNCHANGED <<backendVars, appVars>>

\* resetTimer(time); startTimer(time) in one callback: one render
CallResetThenStartTimer ==
    \E time \in TimerArgs :
        /\ timer' = startTimer(resetTimer(timer, time), time)
        /\ timerLog' = logStart(NoLog, time)
        /\ intervals' = intervalEffect(intervals, timer,
                                       startTimer(resetTimer(timer, time), time))
        /\ UNCHANGED <<backendVars, appVars>>

IntervalTick ==
    /\ intervals.live # {}
    /\ timer' = tick(timer)
    /\ timerLog' = logTick(timerLog, timer)
    /\ intervals' = intervalEffect(intervals, timer, tick(timer))
    /\ UNCHANGED <<backendVars, appVars>>

TimerNext ==
    \/ CallStartTimer
    \/ CallStopTimer
    \/ CallResetTimer
    \/ CallResetThenStartTimer
    \/ IntervalTick

TimerSpec == TimerInit /\ [][TimerNext]_vars

--------------------------------------------------------------------------
(* Backend-only specification: one request body, posted repeatedly *)

ScoreSample == {0, 1, 50, 80, 100}

AnswerFor(score) == IF score = 0 THEN "" ELSE "answer"

Bodies ==
    {[candidateInfo |-> c,
      answers       |-> [i \in 1..6 |-> AnswerFor(sc[i])],
      scores        |-> sc,
      questions     |-> generateQuestions(FixedPicks)] :
        c \in Candidates, sc \in [1..6 -> ScoreSample]}

\* Requests of sessions that are not complete: one outcome short of the
\* questions, or one outcome more than there are questions.
IncompleteBodies ==
    {[candidateInfo |-> c,
      answers       |-> [i \in 1..Len(sc) |-> AnswerFor(sc[i])],
      scores        |-> sc,
      questions     |-> generateQuestions(FixedPicks)] :
        c \in Candidates,
        sc \in [1..5 -> {0, 80}] \cup [1..7 -> {0, 80}]}

BackendInit ==
    /\ timer = useTimer
    /\ timerLog = NoLog
    /\ intervals = NoIntervals
    /\ inMemoryCandidates = <<>>
    /\ request \in Bodies \cup IncompleteBodies
    /\ response = None
    /\ AppInit

PostCompleteInterview ==
    /\ Len(inMemoryCandidates) < MaxCalls
    /\ \E saves \in BOOLEAN :
        LET saved == saves /\ ~completeInterviewThrows(request)
        IN /\ inMemoryCandidates' = IF saved
                 THEN saveCandidate(inMemoryCandidates, candidateData(request))
                 ELSE inMemoryCandidates
           /\ response' = completeInterviewResponse(request, saved)
    /\ UNCHANGED <<request, timerVars, appVars>>

BackendNext == PostCompleteInterview

BackendSpec == BackendInit /\ [][BackendNext]_vars


--------------------------------------------------------------------------
(* The interviewer dashboard: GET /api/candidates and InterviewerTab *)

\* The characters of the strings the dashboard compares.
Chars ==
    ("" :> <<>>) @@
    ("Ann" :> <<"A", "n", "n">>) @@
    ("JANE" :> <<"J", "A", "N", "E">>) @@
    ("ann@x.io" :> <<"a", "n", "n", "@", "x", ".", "i", "o">>) @@
    ("jane@y.io" :> <<"j", "a", "n", "e", "@", "y", ".", "i", "o">>) @@
    ("Jane" :> <<"J", "a", "n", "e">>) @@
    ("x.io" :> <<"x", ".", "i", "o">>)

\* String.prototype.toLowerCase, character by character
toLowerCase(str) ==
    LET lower(c) == CASE c = "A" -> "a" [] c = "E" -> "e" [] c = "J" -> "j"
                      [] c = "N" -> "n" [] OTHER -> c
    IN [i \in 1..Len(Chars[str]) |-> lower(Chars[str][i])]

\* String.prototype.includes on character sequences
includes(hay, needle) ==
    \E k \in 0..(Len(hay) - Len(needle)) : SubSeq(hay, k + 1, k + Len(needle)) = needle

\* candidates.filter(name or email includes searchText, both lower-cased)
filteredCandidates(candidates, searchText) ==
    SelectSeq(candidates, LAMBDA c :
        \/ includes(toLowerCase(c.name), toLowerCase(searchText))
        \/ includes(toLowerCase(c.email), toLowerCase(searchText)))

\* The comparators (a, b) => b.finalScore - a.finalScore and its reverse
compareScore(a, b, sortOrder) ==
    IF sortOrder = "desc" THEN b.finalScore - a.finalScore
    ELSE a.finalScore - b.finalScore

\* Array.prototype.sort with compareScore: a stable sort, every element
\* placed behind the elements that do not compare greater than it.
RECURSIVE sortByScore(_, _)
sortByScore(candidates, sortOrder) ==
    IF candidates = <<>> THEN <<>>
    ELSE LET n == Len(candidates)
             x == candidates[n]
             front == sortByScore(SubSeq(candidates, 1, n - 1), sortOrder)
             before == SelectSeq(front, LAMBDA y : compareScore(y, x, sortOrder) <= 0)
             after == SelectSeq(front, LAMBDA y : compareScore(y, x, sortOrder) > 0)
         IN before \o <<x>> \o after

\* [...filteredCandidates].sort(...)
sortedCandidates(filtered, sortOrder) == sortByScore(filtered, sortOrder)

\* sortedCandidates.reduce into an object keyed by email: the groups in the
\* order in which their emails first appear, each group in the list's order.
RECURSIVE groupedCandidates(_)
groupedCandidates(sorted) ==
    IF sorted = <<>> THEN <<>>
    ELSE LET email == sorted[1].email
         IN <<[email |-> email,
               userCandidates |-> SelectSeq(sorted, LAMBDA c : c.email = email)]>>
            \o groupedCandidates(SelectSeq(sorted, LAMBDA c : c.email # email))

\* The rows of one Table: its Score column has the sorter
\* (a, b) => a.finalScore - b.finalScore and defaultSortOrder 'descend', so
\* the dataSource is shown sorted by score, highest first, ties in the
\* dataSource's order.
tableRows(dataSource) == sortByScore(dataSource, "desc")

\* The rows of the page from top to bottom: one table per group.
RECURSIVE dashboardRows(_)
dashboardRows(groups) ==
    IF groups = <<>> THEN <<>>
    ELSE tableRows(groups[1].userCandidates) \o dashboardRows(Tail(groups))

\* What InterviewerTab renders from its state: the spinner and no row while
\* a fetch is under way (loading), the tables otherwise.
dashboardList(d) ==
    IF d.fetching # None THEN <<>>
    ELSE dashboardRows(groupedCandidates(
            sortedCandidates(filteredCandidates(d.candidates, d.searchText),
                             d.sortOrder)))

\* getCandidates without a database: inMemoryCandidates.sort(...), in place.
getCandidates(store) == sortByScore(store, "desc")

MaxLedger == 3

People == {[name |-> "Ann", email |-> "ann@x.io", phone |-> "555"],
           [name |-> "JANE", email |-> "jane@y.io", phone |-> "556"]}

FinalScores == {40, 70, 90}

SearchTexts == {"", "Jane", "x.io"}

\* Stores of up to MaxLedger saved candidates, _id growing with the time of
\* the save.
Ledgers ==
    UNION {{[i \in 1..n |-> [name |-> who[i].name, email |-> who[i].email,
                             phone |-> who[i].phone, finalScore |-> sc[i], _id |-> i]] :
                who \in [1..n -> People], sc \in [1..n -> FinalScores]} :
           n \in 0..MaxLedger}

DashboardInit ==
    /\ timer = useTimer
    /\ timerLog = NoLog
    /\ intervals = NoIntervals
    /\ inMemoryCandidates \in Ledgers
    /\ request = None
    /\ response = None
    /\ AppInit

\* fetchCandidates up to the await of the request (on mount of
\* InterviewerTab, or by its Refresh button)
fetchCandidatesSent ==
    /\ ~timerExpiredPending
    /\ dashboard.fetching = None
    /\ dashboard' = [dashboard EXCEPT !.fetching =
                        [closure |-> state, stage |-> "sent", candidates |-> <<>>]]
    /\ UNCHANGED <<timerVars, backendVars, state, localStorage, loading, currentAnswer,
                   timeoutHandledRef, interviewStarted, submitCall, startCalls, uploadCall, startTimeouts,
                   completeCalls, history, sessions, chatbot>>

\* GET /api/candidates is served: getCandidates sorts the store in place and
\* the answer carries the list as it is then.
getCandidatesRoute ==
    /\ dashboard.fetching # None
    /\ dashboard.fetching.stage = "sent"
    /\ inMemoryCandidates' = getCandidates(inMemoryCandidates)
    /\ dashboard' = [dashboard EXCEPT !.fetching =
                        [@ EXCEPT !.stage = "answered",
                                  !.candidates = getCandidates(inMemoryCandidates)]]
    /\ UNCHANGED <<timerVars, request, response, state, localStorage, loading,
                   currentAnswer, timeoutHandledRef, interviewStarted, submitCall,
                   startCalls, uploadCall, startTimeouts, completeCalls, history, sessions, chatbot>>

\* fetchCandidates from the response on: the payload of LOAD_SAVED_DATA
\* spreads the state of the render in which fetchCandidates was called (the
\* closure).
fetchCandidatesAnswered ==
    /\ ~timerExpiredPending
    /\ dashboard.fetching # None
    /\ dashboard.fetching.stage = "answered"
    /\ LET candidates == dashboard.fetching.candidates
           closure == dashboard.fetching.closure
           next == IF Len(candidates) > 0
                   THEN LOAD_SAVED_DATA(state, [closure EXCEPT !.candidates = candidates])
                   ELSE state
       IN /\ dashboard' = [dashboard EXCEPT !.candidates = candidates, !.fetching = None]
          /\ state' = next
          /\ localStorage' = saveEffect(state, next)
          /\ startTimeouts' = startTimerEffect(state, next, interviewStarted,
                                               interviewStarted, startTimeouts)
    /\ UNCHANGED <<timerVars, backendVars, loading, currentAnswer,
                   timeoutHandledRef, interviewStarted, submitCall, startCalls, uploadCall,
                   completeCalls, history, sessions, chatbot>>

\* fetchCandidates when fetch rejects, response.json() throws or the answer
\* is without success: the error is shown, the list and the state stay.
fetchCandidatesFailed ==
    /\ ~timerExpiredPending
    /\ dashboard.fetching # None
    /\ dashboard' = [dashboard EXCEPT !.fetching = None]
    /\ UNCHANGED <<timerVars, backendVars, state, localStorage, loading, currentAnswer,
                   timeoutHandledRef, interviewStarted, submitCall, startCalls,
                   uploadCall, startTimeouts, completeCalls, history, sessions,
                   chatbot>>

setSearchText ==
    /\ \E text \in SearchTexts : dashboard' = [dashboard EXCEPT !.searchText = text]
    /\ UNCHANGED <<timerVars, backendVars, state, localStorage, loading, currentAnswer,
                   timeoutHandledRef, interviewStarted, submitCall, startCalls, uploadCall, startTimeouts,
                   completeCalls, history, sessions, chatbot>>

setSortOrder ==
    /\ \E order \in {"desc", "asc"} : dashboard' = [dashboard EXCEPT !.sortOrder = order]
    /\ UNCHANGED <<timerVars, backendVars, state, localStorage, loading, currentAnswer,
                   timeoutHandledRef, interviewStarted, submitCall, startCalls, uploadCall, startTimeouts,
                   completeCalls, history, sessions, chatbot>>

DashboardNext ==
    \/ fetchCandidatesSent
    \/ getCandidatesRoute
    \/ fetchCandidatesAnswered
    \/ fetchCandidatesFailed
    \/ setSearchText
    \/ setSortOrder

DashboardSpec == DashboardInit /\ [][DashboardNext]_vars

--------------------------------------------------------------------------
(* POST /api/start-interview on its own *)

\* Indices Math.floor(Math.random() * pool.length) that are explored: the
\* first, a middle and the last question of a pool.
PickValues == {0, PoolSize \div 2, PoolSize - 1}

StartInit ==
    /\ timer = useTimer
    /\ timerLog = NoLog
    /\ intervals = NoIntervals
    /\ inMemoryCandidates = <<>>
    /\ request = None
    /\ response = None
    /\ AppInit

\* POST /api/start-interview with a candidate info and picks drawn from
\* given sets
postStartInterview(infos, draws) ==
    /\ \E values \in infos, picks \in draws :
        /\ request' = [candidateInfo |-> values]
        /\ response' = startInterviewResponse([candidateInfo |-> values], picks)
    /\ UNCHANGED <<timerVars, inMemoryCandidates, appVars>>

\* Every tuple of picks; of the candidate infos, the complete one and, for each
\* field, the ones that lack it.
StartInfos ==
    {v \in FormValues :
        Cardinality({f \in {"name", "email", "phone"} : v[f] \in {"Ann", "ann@x.io", "555"}}) >= 2}

PostStartInterview == postStartInterview(StartInfos, [1..6 -> PickValues])

StartNext == PostStartInterview

StartSpec == StartInit /\ [][StartNext]_vars

\* The start form and the route: requests of the form's handler, and
\* requests with any candidate info sent to the route directly.
PostStartInterviewDirect == postStartInterview(FormValues, PickSample)

\* The candidate types nothing: every question is resolved by its timer.
FormNext ==
    \/ PostStartInterviewDirect
    \/ handleStartInterviewSent
    \/ startInterviewRoute
    \/ handleStartInterviewAnswered
    \/ handleStartInterviewFailed
    \/ startTimeoutFires
    \/ timerTick
    \/ timerExpiredEffect
    \/ completeTimeoutFires
    \/ completeInterviewRoute
    \/ completeInterviewAnswered
    \/ completeInterviewFailed
    \/ resetInterview
    \/ reload

FormSpec == Init /\ [][FormNext]_vars

--------------------------------------------------------------------------
(* Scoring on its own: POST /api/submit-answer of both servers *)

\* The characters of the answers that are scored.
AnswerChars ==
    ("" :> <<>>) @@
    ("   " :> <<" ", " ", " ">>) @@
    ("answer" :>
        <<"a", "n", "s", "w", "e", "r">>) @@
    ("React hooks keep state in a component" :>
        <<"R", "e", "a", "c", "t", " ", "h", "o", "o", "k", "s", " ",
          "k", "e", "e", "p", " ", "s", "t", "a", "t", "e", " ", "i",
          "n", " ", "a", " ", "c", "o", "m", "p", "o", "n", "e", "n",
          "t">>) @@
    ("A React component is a function of props and state; a hook runs after rendering and a closure keeps its scope" :>
        <<"A", " ", "R", "e", "a", "c", "t", " ", "c", "o", "m", "p",
          "o", "n", "e", "n", "t", " ", "i", "s", " ", "a", " ", "f",
          "u", "n", "c", "t", "i", "o", "n", " ", "o", "f", " ", "p",
          "r", "o", "p", "s", " ", "a", "n", "d", " ", "s", "t", "a",
          "t", "e", ";", " ", "a", " ", "h", "o", "o", "k", " ", "r",
          "u", "n", "s", " ", "a", "f", "t", "e", "r", " ", "r", "e",
          "n", "d", "e", "r", "i", "n", "g", " ", "a", "n", "d", " ",
          "a", " ", "c", "l", "o", "s", "u", "r", "e", " ", "k", "e",
          "e", "p", "s", " ", "i", "t", "s", " ", "s", "c", "o", "p",
          "e">>)

ScoringAnswers == DOMAIN AnswerChars

\* answer.toLowerCase(), character by character
answerToLowerCase(answer) ==
    LET lower(c) == CASE c = "A" -> "a" [] c = "R" -> "r" [] OTHER -> c
    IN [i \in 1..Len(AnswerChars[answer]) |-> lower(AnswerChars[answer][i])]

\* Object.values(keywords).flat()
keywords ==
    <<<<"r", "e", "a", "c", "t">>,
      <<"c", "o", "m", "p", "o", "n", "e", "n", "t">>,
      <<"j", "s", "x">>,
      <<"h", "o", "o", "k">>,
      <<"s", "t", "a", "t", "e">>,
      <<"p", "r", "o", "p", "s">>,
      <<"v", "i", "r", "t", "u", "a", "l", " ", "d", "o", "m">>,
      <<"l", "i", "f", "e", "c", "y", "c", "l", "e">>,
      <<"r", "e", "n", "d", "e", "r", "i", "n", "g">>,
      <<"j", "a", "v", "a", "s", "c", "r", "i", "p", "t">>,
      <<"f", "u", "n", "c", "t", "i", "o", "n">>,
      <<"v", "a", "r", "i", "a", "b", "l", "e">>,
      <<"s", "c", "o", "p", "e">>,
      <<"c", "l", "o", "s", "u", "r", "e">>,
      <<"a", "s", "y", "n", "c">>,
      <<"p", "r", "o", "m", "i", "s", "e">>,
      <<"e", "s", "6">>,
      <<"a", "r", "r", "o", "w", " ", "f", "u", "n", "c", "t", "i",
        "o", "n">>,
      <<"p", "e", "r", "f", "o", "r", "m", "a", "n", "c", "e">>,
      <<"o", "p", "t", "i", "m", "i", "z", "a", "t", "i", "o", "n">>,
      <<"b", "e", "s", "t", " ", "p", "r", "a", "c", "t", "i", "c",
        "e">>,
      <<"d", "e", "s", "i", "g", "n", " ", "p", "a", "t", "t", "e",
        "r", "n">>,
      <<"a", "r", "c", "h", "i", "t", "e", "c", "t", "u", "r", "e">>,
      <<"t", "e", "s", "t", "i", "n", "g">>>>

\* difficultyMultiplier, in tenths
difficultyMultiplier(difficulty) ==
    CASE difficulty = "easy"   -> 10
      [] difficulty = "medium" -> 12
      [] difficulty = "hard"   -> 15

\* scoreAnswer of src/backend/index.js: length, keywords and a random
\* addend of up to 15 points, scaled by the difficulty and capped at 100.
\* Math.random() is quarters / 4, so that the arithmetic is exact.
scoreAnswerIndexJs(answer, difficulty, quarters) ==
    IF trim(answer) = "" THEN 0
    ELSE LET answerLength == Len(AnswerChars[trim(answer)])
             baseScore == 30 + (IF answerLength > 20 THEN 20 ELSE 0)
                             + (IF answerLength > 50 THEN 15 ELSE 0)
                             + (IF answerLength > 100 THEN 10 ELSE 0)
             keywordScore ==
                 5 * Cardinality({k \in 1..Len(keywords) :
                         includes(answerToLowerCase(answer), keywords[k])})
             rounded == MathRound(
                 (4 * (baseScore + keywordScore) + 15 * quarters)
                     * difficultyMultiplier(difficulty), 40)
         IN IF rounded < 100 THEN rounded ELSE 100

\* The JSON answer of POST /api/submit-answer of src/backend/index.js
submitAnswerResponseIndexJs(body, quarters) ==
    [success |-> TRUE,
     score   |-> scoreAnswerIndexJs(body.answer, body.question.difficulty, quarters)]

\* Every value of Math.floor(Math.random() * 40) + 30
FallbackRange == 30..69

\* Scores in the JSON of the text-generation service: it is asked for a
\* number from 0 to 100 and its answer is taken as it is.
ServiceReplies == {-5, 0, 45, 100, 150}

\* The bodies of the submit-answer requests that are explored: one question
\* of each difficulty with each answer.
SubmitBodies ==
    {[question |-> generateQuestions(FixedPicks)[i], answer |-> answer,
      candidateInfo |-> candidateInfo] :
        i \in {1, 3, 5}, answer \in ScoringAnswers, candidateInfo \in Candidates}

\* What the catch branch may answer to a request
fallbackResponses(body) ==
    {submitAnswerResponse(body,
        [ok |-> FALSE, score |-> 0, feedback |-> FALSE, sampleAnswer |-> FALSE],
        drawn, TRUE) : drawn \in FallbackRange}

\* What the route of src/backend/index.js may answer to a request
indexJsResponses(body) == {submitAnswerResponseIndexJs(body, quarters) : quarters \in 0..3}

ScoringInit ==
    /\ timer = useTimer
    /\ timerLog = NoLog
    /\ intervals = NoIntervals
    /\ inMemoryCandidates = <<>>
    /\ request = None
    /\ response = None
    /\ AppInit

\* Draws of the fallback score tried when the service has answered: both ends
\* of Math.floor(Math.random() * 40) + 30 and one value between them
FallbackSample == {30, 45, 69}

\* POST /api/submit-answer, the text-generation service answers; with a
\* feedback and a sample answer in the reply generateAnswerFeedback throws
\* and the score is the fallback's draw
PostSubmitAnswerScorerUp ==
    /\ \E body \in SubmitBodies, score \in ServiceReplies,
          texts \in BOOLEAN, drawn \in FallbackSample :
        /\ request' = body
        /\ response' = submitAnswerResponse(body,
                            [ok |-> TRUE, score |-> score, feedback |-> texts,
                             sampleAnswer |-> texts], drawn, TRUE)
    /\ UNCHANGED <<timerVars, inMemoryCandidates, appVars>>

\* POST /api/submit-answer, the text-generation service throws
PostSubmitAnswerScorerDown ==
    /\ \E body \in SubmitBodies :
        /\ request' = body
        /\ response' \in fallbackResponses(body)
    /\ UNCHANGED <<timerVars, inMemoryCandidates, appVars>>

\* POST /api/submit-answer of src/backend/index.js
PostSubmitAnswerIndexJs ==
    /\ \E body \in SubmitBodies :
        /\ request' = body
        /\ response' \in indexJsResponses(body)
    /\ UNCHANGED <<timerVars, inMemoryCandidates, appVars>>

ScoringNext ==
    \/ PostSubmitAnswerScorerUp
    \/ PostSubmitAnswerScorerDown
    \/ PostSubmitAnswerIndexJs

ScoringSpec == ScoringInit /\ [][ScoringNext]_vars

--------------------------------------------------------------------------
(* The candidate's sessions together with the interviewer's list *)

\* How many times an entry occurs in a list of candidates
occurrences(candidates, entry) ==
    Cardinality({i \in 1..Len(candidates) : candidates[i] = entry})

--------------------------------------------------------------------------
(* An interview while the interviewer's tab fetches the list; the store    *)
(* already holds a candidate saved earlier.                                *)

EarlierCandidates ==
    <<[name |-> "JANE", email |-> "jane@y.io", phone |-> "556", finalScore |-> 70,
       _id |-> 1]>>

TabsInit ==
    /\ timer = useTimer
    /\ timerLog = NoLog
    /\ intervals = NoIntervals
    /\ inMemoryCandidates = EarlierCandidates
    /\ request = None
    /\ response = None
    /\ AppInit

\* useEffect(() => { fetchCandidates() }, []): the interviewer's tab is opened
\* for the first time.  Its Refresh button is not clicked.
fetchOnMount ==
    /\ dashboard.candidates = <<>>
    /\ fetchCandidatesSent

\* The candidate answers the first question only
typeFirstAnswer ==
    /\ IS.currentQuestionIndex = 0
    /\ typeAnswer

\* Every question after the first is resolved by its timer.
TabsNext ==
    \/ handleStartInterviewSent
    \/ startInterviewRoute
    \/ handleStartInterviewAnswered
    \/ handleStartInterviewFailed
    \/ startTimeoutFires
    \/ timerTick
    \/ timerExpiredEffect
    \/ typeFirstAnswer
    \/ handleSubmitAnswer
    \/ submitAnswerAnswered
    \/ completeTimeoutFires
    \/ completeInterviewRoute
    \/ completeInterviewAnswered
    \/ completeInterviewFailed
    \/ resetInterview
    \/ fetchOnMount
    \/ getCandidatesRoute
    \/ fetchCandidatesAnswered
    \/ fetchCandidatesFailed

TabsSpec == TabsInit /\ [][TabsNext]_vars

--------------------------------------------------------------------------
(* A second interview on the same page *)

\* Interviews started on one page
MaxRestarts == 2

\* handleStartInterview up to its await, on a page that may start again
handleStartInterviewSentAgain == startInterviewSent(MaxRestarts)

\* The candidate answers the last question only
typeLastAnswer ==
    /\ IS.currentQuestionIndex = Len(IS.questions) - 1
    /\ typeAnswer

RestartInit == Init

RestartNext ==
    \/ handleStartInterviewSentAgain
    \/ startInterviewRoute
    \/ handleStartInterviewAnswered
    \/ handleStartInterviewFailed
    \/ startTimeoutFires
    \/ timerTick
    \/ timerExpiredEffect
    \/ typeLastAnswer
    \/ handleSubmitAnswer
    \/ submitAnswerAnswered
    \/ completeTimeoutFires
    \/ completeInterviewRoute
    \/ completeInterviewAnswered
    \/ completeInterviewFailed
    \/ resetInterview

RestartSpec == RestartInit /\ [][RestartNext]_vars

--------------------------------------------------------------------------
(* The snapshot in localStorage: an interview, reloads included, with a   *)
(* service that may also answer without a score.  The candidate answers   *)
(* the first question only.                                                *)

submitAnswerAnsweredUnscored == submitAnswerAnsweredBy(UnscoredOutcomes)

SnapshotNext ==
    \/ handleStartInterviewSent
    \/ startInterviewRoute
    \/ handleStartInterviewAnswered
    \/ handleStartInterviewFailed
    \/ startTimeoutFires
    \/ timerTick
    \/ timerExpiredEffect
    \/ typeFirstAnswer
    \/ handleSubmitAnswer
    \/ submitAnswerAnsweredUnscored
    \/ submitAnswerAnswered
    \/ completeTimeoutFires
    \/ completeInterviewRoute
    \/ completeInterviewAnswered
    \/ completeInterviewFailed
    \/ resetInterview
    \/ reload

SnapshotSpec == Init /\ [][SnapshotNext]_vars

--------------------------------------------------------------------------
(* Resume upload and ChatbotCollector *)

SET_RESUME_DATA(s, candidateInfo, missingFields) ==
    [s EXCEPT !.resumeData = candidateInfo,
              !.missingFields = missingFields,
              !.chatbotActive = Len(missingFields) > 0]

UPDATE_MISSING_FIELD(s, field, value) ==
    LET updatedMissingFields == SelectSeq(s.missingFields, LAMBDA f : f # field)
    IN [s EXCEPT !.resumeData = [@ EXCEPT ![field] = value],
                 !.missingFields = updatedMissingFields,
                 !.chatbotActive = Len(updatedMissingFields) > 0]

\* actions.setResumeData: the fields that are falsy, in the order name,
\* email, phone.
setResumeData(candidateInfo) ==
    SelectSeq(<<"name", "email", "phone">>, LAMBDA f : missing(candidateInfo[f]))

\* What parseResumeContent extracts: each field found or null, and never all
\* three null: with nothing found parseResumeFromFilename answers, which
\* always sets a phone.
ResumeInfos ==
    {info \in [name : {Absent, "Ann Lee", "Cy Day"},
               email : {Absent, "ann@x.io", "cy@z.io"},
               phone : {Absent, "5550001111", "+1-555-0000"}] :
        ~(info.name = Absent /\ info.email = Absent /\ info.phone = Absent)}

\* What an upload answer can carry: each field found or null.
AnyResumeInfos ==
    [name : {Absent, "Ann Lee"}, email : {Absent, "ann@x.io"},
     phone : {Absent, "5550001111"}]

\* What the candidate types into the chatbot.
Inputs == {"", "   ", "J", "Jo Li", "Bo Ek", "Di Fox", "jo@x", "jo@x.io", "bo@y.io",
           "di@w.io", "555", "5551234567", "5557654321", "5550009999"}

\* fieldValidation on the inputs above: a name of at least two letters,
\* spaces and dots; local@domain.tld; at least ten digits.
fieldValidation(field, value) ==
    CASE field = "name"  -> value \in {"Jo Li", "Bo Ek", "Di Fox"}
      [] field = "email" -> value \in {"jo@x.io", "bo@y.io", "di@w.io"}
      [] field = "phone" -> value \in {"5551234567", "5557654321", "5550009999"}

\* IntervieweeTab renders ChatbotCollector: the render returns
\* InterviewComplete when isComplete and the interview when isStarted, and
\* only then the chatbot in place of the start form.
chatbotShown(s) ==
    /\ ~s.interviewState.isComplete
    /\ ~s.interviewState.isStarted
    /\ s.chatbotActive /\ Len(s.missingFields) > 0

\* handleResumeUpload of the start form up to the await of the upload-resume
\* request: the buttons show loading.
handleResumeUploadSent ==
    /\ formShown /\ ~loading
    /\ uploadCall = None
    /\ loading' = TRUE
    /\ uploadCall' = [stage |-> "sent"]
    /\ UNCHANGED <<timerVars, backendVars, state, localStorage, currentAnswer,
                   timeoutHandledRef, interviewStarted, submitCall, startCalls,
                   startTimeouts, completeCalls, history, sessions, chatbot,
                   dashboard>>

\* handleResumeUpload from the response on, the answer carrying one of the
\* given candidate infos: actions.setResumeData dispatches SET_RESUME_DATA;
\* finally loading is cleared.  A chatbot rendered afterwards is a new
\* component.
resumeUploadAnswered(infos) ==
    /\ uploadCall # None
    /\ \E candidateInfo \in infos :
        LET next == SET_RESUME_DATA(state, candidateInfo, setResumeData(candidateInfo))
        IN /\ state' = next
           /\ localStorage' = saveEffect(state, next)
    /\ chatbot' = ChatbotCollector
    /\ loading' = FALSE
    /\ uploadCall' = None
    /\ UNCHANGED <<timerVars, backendVars, currentAnswer, timeoutHandledRef,
                   interviewStarted, submitCall, startCalls, startTimeouts,
                   completeCalls, history, sessions, dashboard>>

\* POST /api/upload-resume has parsed the file
handleResumeUploadAnswered == resumeUploadAnswered(ResumeInfos)

\* handleResumeUpload when the route answers without success, fetch rejects
\* or response.json() throws: the error is shown, nothing is dispatched,
\* finally loading is cleared.
handleResumeUploadFailed ==
    /\ uploadCall # None
    /\ loading' = FALSE
    /\ uploadCall' = None
    /\ UNCHANGED <<timerVars, backendVars, state, localStorage, currentAnswer,
                   timeoutHandledRef, interviewStarted, submitCall, startCalls,
                   startTimeouts, completeCalls, history, sessions, chatbot,
                   dashboard>>

\* handleSubmit of ChatbotCollector with the render that follows: the
\* dispatch of UPDATE_MISSING_FIELD, setCurrentFieldIndex or setIsCompleted,
\* the effect that resets an index out of bounds, and the unmount when the
\* start form replaces the chatbot.  nextIndex is compared with the
\* missingFields of the render the handler was created in.  A blank or invalid input only shows a
\* message.  onComplete, 1.5 s later, only fills the form.
handleSubmit ==
    /\ chatbotShown(state)
    /\ ~chatbot.isCompleted
    /\ \E inputValue \in Inputs :
        LET value == trim(inputValue)
            currentField == state.missingFields[chatbot.currentFieldIndex + 1]
            next == UPDATE_MISSING_FIELD(state, currentField, value)
            nextIndex == chatbot.currentFieldIndex + 1
            set == IF nextIndex < Len(state.missingFields)
                   THEN [chatbot EXCEPT !.currentFieldIndex = nextIndex]
                   ELSE [chatbot EXCEPT !.isCompleted = TRUE]
        IN IF value = "" \/ ~fieldValidation(currentField, value)
           THEN UNCHANGED <<state, localStorage, chatbot>>
           ELSE /\ state' = next
                /\ localStorage' = saveEffect(state, next)
                /\ chatbot' =
                     IF ~chatbotShown(next) THEN ChatbotCollector
                     ELSE IF set.currentFieldIndex >= Len(next.missingFields)
                     THEN [set EXCEPT !.currentFieldIndex = 0]
                     ELSE set
    /\ UNCHANGED <<timerVars, backendVars, loading, currentAnswer,
                   timeoutHandledRef, interviewStarted, submitCall, startCalls, uploadCall, startTimeouts,
                   completeCalls, history, sessions, dashboard>>

ChatbotNext ==
    \/ handleResumeUploadSent
    \/ handleResumeUploadAnswered
    \/ handleResumeUploadFailed
    \/ handleSubmit
    \/ reload

ChatbotSpec == Init /\ [][ChatbotNext]_vars

\* ChatbotCollector and the reducer with every list of missing fields:
\* data.candidateInfo is taken from the upload answer as it comes, whichever
\* parser produced it.
handleResumeUploadAnsweredAny == resumeUploadAnswered(AnyResumeInfos)

CollectorNext ==
    \/ handleResumeUploadSent
    \/ handleResumeUploadAnsweredAny
    \/ handleResumeUploadFailed
    \/ handleSubmit
    \/ reload

CollectorSpec == Init /\ [][CollectorNext]_vars

--------------------------------------------------------------------------
(* The context's actions that no component calls, called on the provider *)

\* A dispatch on the provider with the effects of the render that follows
dispatched(next) ==
    /\ state' = next
    /\ localStorage' = saveEffect(state, next)
    /\ startTimeouts' = startTimerEffect(state, next, interviewStarted,
                                         interviewStarted, startTimeouts)
    /\ UNCHANGED <<timerVars, backendVars, loading, currentAnswer,
                   timeoutHandledRef, interviewStarted, submitCall, startCalls,
                   uploadCall, completeCalls, history, sessions, chatbot, dashboard>>

setCandidateInfo ==
    \E candidateInfo \in Candidates : dispatched(SET_CANDIDATE_INFO(state, candidateInfo))

pauseInterview == dispatched(PAUSE_INTERVIEW(state))

resumeInterview == dispatched(RESUME_INTERVIEW(state))

timeoutAnswer ==
    /\ Len(IS.answers) < MaxOutcomes
    /\ dispatched(TIMEOUT_ANSWER(state))

updateCandidates ==
    \E candidates \in {<<>>, EarlierCandidates} :
        dispatched(UPDATE_CANDIDATES(state, candidates))

ContextNext ==
    \/ setCandidateInfo
    \/ pauseInterview
    \/ resumeInterview
    \/ timeoutAnswer
    \/ updateCandidates

ContextSpec == Init /\ [][ContextNext]_vars

--------------------------------------------------------------------------
(* Claims *)

\* C1: for every question, whatever the interleaving of a submission with
\* the timer's expiry, exactly one outcome is recorded and the index advances
\* once: no question has two outcomes, and every question the index has
\* passed has one.
C1_ExactlyOneOutcome ==
    \A q \in 0..5 :
        /\ history.outcomes[q + 1] <= 1
        /\ q < IS.currentQuestionIndex => history.outcomes[q + 1] = 1

\* C2: in a started session the number of recorded answers and of recorded
\* scores equals currentQuestionIndex, after the last question too.
C2_OutcomesEqualIndex ==
    IS.isStarted =>
        /\ Len(IS.answers) = IS.currentQuestionIndex
        /\ Len(IS.scores) = IS.currentQuestionIndex

\* C3: every complete-interview request carries the recorded scores, one per
\* question and in question order, and the final score of a complete session
\* is the rounded mean of the recorded scores.
C3_CompleteGetsRecordedScores ==
    /\ \A i \in 1..Len(completeCalls) :
        completeCalls[i].listening =>
            /\ Len(completeCalls[i].body.scores) = Len(IS.questions)
            /\ completeCalls[i].body.scores = IS.scores
    /\ IS.isComplete => 2 * (6 * IS.finalScore - Sum(IS.scores)) \in -5..6

\* C4: the finalScore answered by complete-interview is the nearest integer
\* to the mean of the submitted scores, a half rounding up, and lies in 0..100.
C4_FinalScoreIsRoundedMean ==
    (response # None /\ response.success) =>
        LET f == response.finalScore
            n == Len(request.scores)
            total == Sum(request.scores)
        IN /\ f \in 0..100
           /\ 2 * (n * f - total) <= n
           /\ 2 * (total - n * f) < n

\* C4 witness: a request whose mean lies halfway between two integers was
\* answered with the upper one.
C4_Witness ==
    /\ response # None /\ response.success
    /\ Sum(request.scores) % 6 = 3
    /\ 6 * response.finalScore = Sum(request.scores) + 3

\* C5: after startTimer(d) with d >= 1, timeLeft is d minus the ticks so far,
\* no tick follows the d-th, the d-th tick raises hasExpired and stops the
\* timer, and hasExpired is raised once.
C5_ExpiresAfterExactlyDTicks ==
    (timerLog.d # NoArg /\ timerLog.d[1] >= 1) =>
        LET d == timerLog.d[1]
        IN /\ timer.timeLeft = d - timerLog.ticks
           /\ timerLog.ticks <= d
           /\ timerLog.expiries = (IF timerLog.ticks = d THEN 1 ELSE 0)
           /\ timer.hasExpired => timerLog.ticks = d
           /\ (timerLog.ticks = d /\ ~timerLog.restarted) =>
                (timer.hasExpired /\ ~timer.isRunning)

\* C5 witness: startTimer(3) was followed by three ticks.
C5_Witness ==
    /\ timerLog.d = Arg(3)
    /\ timerLog.ticks = 3
    /\ timer.hasExpired

\* C6: timeLeft is never negative and the timer is never running with
\* timeLeft = 0, whatever calls are made.
C6_NeverRunningAtZero ==
    /\ timer.timeLeft >= 0
    /\ ~(timer.isRunning /\ timer.timeLeft = 0)

\* C7: the step that handles an expired timer records the empty answer with
\* score 0 and issues no submit-answer request.
C7_TimeoutRecordsEmptyZero ==
    [][(timerExpiredPending /\ Len(IS'.answers) > Len(IS.answers)) =>
            /\ state'.interviewState.answers = Append(IS.answers, "")
            /\ state'.interviewState.scores = Append(IS.scores, 0)
            /\ submitCall' = submitCall]_vars

\* C7 witness: the expiry of the timer has just been handled while an answer
\* was typed, and the last outcome is the empty answer with score 0.
C7_Witness ==
    /\ timeoutHandledRef /\ timer.hasExpired
    /\ Len(IS.answers) >= 1
    /\ IS.answers[Len(IS.answers)] = "" /\ IS.scores[Len(IS.scores)] = 0
    /\ submitCall = None
    /\ startCalls = <<>>

\* C8: once a submission of question q has failed, question q is eventually
\* resolved, and with one outcome only.
C8_FailedScoringResolvesOnce ==
    \A q \in 0..5 :
        /\ (history.failed = <<q>>) ~> (history.outcomes[q + 1] >= 1)
        /\ [](history.failed = <<q>> => history.outcomes[q + 1] <= 1)

\* C9: after every step the stored snapshot equals the state in memory, and
\* a reload restores the state (questions, answers, scores and
\* currentQuestionIndex with it) unchanged.
C9_SnapshotRestores ==
    [][/\ localStorage' = state'
       /\ reload => state' = state]_vars

\* C10: however often complete-interview is called with the same request,
\* the store holds at most one entry for it.
C10_CompleteIsIdempotent ==
    Cardinality({i \in 1..Len(inMemoryCandidates) :
                    inMemoryCandidates[i] = candidateData(request)}) <= 1

\* C11: a session issues at most one complete-interview request and
\* contributes at most one entry to the backend store and to the local
\* candidates list, whatever the interleaving of submission and expiry.
C11_CompletesOnce ==
    /\ Len(completeCalls) <= 1
    /\ Len(state.candidates) <= sessions
    /\ Len(inMemoryCandidates) <= sessions

\* C12: complete-interview stores only complete sessions: every stored entry
\* has 6 answers, 6 scores and 6 questions, and a request with another number
\* of outcomes is not answered with success.
C12_OnlyCompleteSessionsStored ==
    /\ \A i \in 1..Len(inMemoryCandidates) :
        /\ Len(inMemoryCandidates[i].scores) = 6
        /\ Len(inMemoryCandidates[i].answers) = 6
        /\ Len(inMemoryCandidates[i].questions) = 6
    /\ (response # None /\ response.success) =>
        (Len(request.scores) = 6 /\ Len(request.answers) = 6)

\* C13: once the candidates are fetched, the rows of the dashboard are
\* exactly the stored sessions whose name or email contains the search text
\* without regard to case, ordered by finalScore as sortOrder says, equal
\* scores in the order of insertion.
C13_ListIsFilteredAndSorted ==
    Len(dashboard.candidates) = Len(inMemoryCandidates) =>
        LET shown == dashboardList(dashboard)
            wanted == {i \in 1..Len(inMemoryCandidates) :
                \/ includes(toLowerCase(inMemoryCandidates[i].name),
                            toLowerCase(dashboard.searchText))
                \/ includes(toLowerCase(inMemoryCandidates[i].email),
                            toLowerCase(dashboard.searchText))}
        IN /\ Len(shown) = Cardinality(wanted)
           /\ {shown[i] : i \in 1..Len(shown)} = {inMemoryCandidates[i] : i \in wanted}
           /\ \A i, j \in 1..Len(shown) : i < j =>
                \/ compareScore(shown[i], shown[j], dashboard.sortOrder) < 0
                \/ /\ shown[i].finalScore = shown[j].finalScore
                   /\ shown[i]._id < shown[j]._id

\* C14: no start request is sent by the form with a name, email or phone
\* that is absent or empty; and a start request with such a field is answered
\* with an error, generates no questions and starts no session: the state
\* stays as it was, with no timer started or scheduled.
C14_StartNeedsCandidateInfo ==
    /\ [](\A i \in 1..Len(startCalls) :
            /\ startCalls[i].body.candidateInfo.name \notin {Absent, ""}
            /\ startCalls[i].body.candidateInfo.email \notin {Absent, ""}
            /\ startCalls[i].body.candidateInfo.phone \notin {Absent, ""})
    /\ [][(/\ PostStartInterviewDirect \/ startInterviewRoute
           /\ \/ request'.candidateInfo.name \in {Absent, ""}
              \/ request'.candidateInfo.email \in {Absent, ""}
              \/ request'.candidateInfo.phone \in {Absent, ""})
          => /\ ~response'.success
             /\ "questions" \notin DOMAIN response'
             /\ state' = state
             /\ timer' = timer
             /\ startTimeouts' = startTimeouts]_vars

\* C14 witness: a start request with an empty email was refused.
C14_Witness ==
    /\ request # None
    /\ "candidateInfo" \in DOMAIN request
    /\ request.candidateInfo.name = "Ann"
    /\ request.candidateInfo.email = ""
    /\ ~response.success
    /\ ~IS.isStarted

\* C15: every question list generated at a start has 6 questions in the
\* order easy, easy, medium, medium, hard, hard, with pairwise distinct ids
\* and the time limits 20, 60 and 120 of their difficulties, whatever picks
\* are made from the pools.
C15_QuestionListShape ==
    (response # None /\ response.success) =>
        LET questions == response.questions
        IN /\ Len(questions) = 6
           /\ [i \in 1..6 |-> questions[i].difficulty] =
                <<"easy", "easy", "medium", "medium", "hard", "hard">>
           /\ [i \in 1..6 |-> questions[i].timeLimit] = <<20, 20, 60, 60, 120, 120>>
           /\ \A i, j \in 1..6 : i # j => questions[i].id # questions[j].id

\* C15 witness: a list was generated in which the same question of the easy
\* pool was picked twice.
C15_Witness ==
    /\ response # None /\ response.success
    /\ response.questions[1].question = response.questions[2].question
    /\ response.questions[5].question # response.questions[6].question

\* C16: every score answered by submit-answer is an integer in 0..100,
\* whether it comes from the text-generation service, from the fallback or
\* from the blank-answer branch.
C16_ScoreInRange ==
    (response # None /\ response.success) => response.score \in 0..100

\* C17: with the text-generation service unavailable, two scoring calls with
\* the same question and the same answer give the same score.
C17_FallbackDeterministic ==
    [][/\ (/\ PostSubmitAnswerScorerDown
           /\ request' = request
           /\ response \in fallbackResponses(request))
          => response'.score = response.score
       /\ (/\ PostSubmitAnswerIndexJs
           /\ request' = request
           /\ response \in indexJsResponses(request))
          => response'.score = response.score]_vars

\* C18: the ledger is append-only: no step of completing, listing, resetting
\* or starting removes or changes an entry, neither in the server's store
\* nor in the candidates of the client's state.
C18_LedgerAppendOnly ==
    [][/\ \A i \in 1..Len(inMemoryCandidates) :
            occurrences(inMemoryCandidates', inMemoryCandidates[i])
                >= occurrences(inMemoryCandidates, inMemoryCandidates[i])
       /\ \A i \in 1..Len(state.candidates) :
            occurrences(state'.candidates, state.candidates[i])
                >= occurrences(state.candidates, state.candidates[i])]_vars

\* C19: the chatbot reports completion only when no field is missing any
\* more, and while it is on screen it offers an input for a field that is
\* still missing; every value it accepts supplies exactly the field it asked
\* for, and with the last field supplied the start form replaces it.
C19_CompletedMeansNothingMissing ==
    /\ [](/\ chatbot.isCompleted => state.missingFields = <<>>
          /\ chatbotShown(state) =>
                /\ ~chatbot.isCompleted
                /\ chatbot.currentFieldIndex < Len(state.missingFields))
    /\ [][(handleSubmit /\ state' # state) =>
            LET asked == state.missingFields[chatbot.currentFieldIndex + 1]
            IN /\ state'.missingFields =
                    SelectSeq(state.missingFields, LAMBDA f : f # asked)
               /\ Len(state'.missingFields) = Len(state.missingFields) - 1
               /\ state'.resumeData[asked] \notin {Absent, ""}
               /\ state'.missingFields = <<>> => ~chatbotShown(state')]_vars

\* C20: accepting a submission stops the timer in the same step: right
\* after handleSubmitAnswer has taken the answer, the timer is not running.
C20_SubmitStopsTimer ==
    [][handleSubmitAnswer => ~timer'.isRunning]_vars

\* C21: the index never advances past a question that has no outcome of its
\* own: every question below currentQuestionIndex has had an outcome
\* recorded while it was the question being resolved.
C21_OutcomeBeforeAdvance ==
    \A q \in 0..5 : q < IS.currentQuestionIndex => history.outcomes[q + 1] >= 1

\* C22: while a session is in progress, answers, scores and
\* currentQuestionIndex change only in the steps that resolve an answer (the
\* expiry effect and the continuation of a submission); every other step,
\* the arrival of the dashboard's candidates included, leaves them unchanged.
C22_OnlyResolutionWritesOutcomes ==
    [][(/\ IS.isStarted /\ ~IS.isComplete
        /\ ~timerExpiredEffect
        /\ ~submitAnswerAnswered)
       => /\ state'.interviewState.answers = IS.answers
          /\ state'.interviewState.scores = IS.scores
          /\ state'.interviewState.currentQuestionIndex = IS.currentQuestionIndex]_vars

\* C23: the response of a submit-answer request that arrives after its
\* session was abandoned (RESET_INTERVIEW has put the fresh state in place)
\* is ignored: it records no outcome, does not advance the index and
\* issues no complete-interview request.
C23_LateResponseIgnored ==
    [][(submitAnswerAnswered /\ ~IS.isStarted)
       => /\ state'.interviewState.answers = IS.answers
          /\ state'.interviewState.scores = IS.scores
          /\ state'.interviewState.currentQuestionIndex = IS.currentQuestionIndex
          /\ completeCalls' = completeCalls]_vars

\* C24: whatever startTimer, stopTimer and resetTimer calls and ticks
\* happen, at most one interval is scheduled, one is scheduled exactly while
\* the timer is running with time left, and every tick of it takes exactly 1
\* from timeLeft.
C24_OneTickStream ==
    /\ [](/\ Cardinality(intervals.live) <= 1
          /\ intervals.live # {} <=> intervalScheduled(timer))
    /\ [][IntervalTick => timer'.timeLeft = timer.timeLeft - 1]_vars

\* C24 witness: the timer was started with 3, has ticked once and is still
\* ticking on the one interval that intervalRef holds.
C24_Witness ==
    /\ timerLog.d = Arg(3) /\ timerLog.ticks = 1
    /\ timer.isRunning /\ timer.timeLeft = 2
    /\ intervals.live = {intervals.ref}

\* C26: in every reachable state finalScore and summary are non-null exactly
\* when the session is complete, and every state produced by START_INTERVIEW
\* or RESET_INTERVIEW has isComplete false and both fields null.
C26_ResultIffComplete ==
    /\ []((~isNull(IS.finalScore) /\ ~isNull(IS.summary)) <=> IS.isComplete)
    /\ [][(handleStartInterviewAnswered \/ resetInterview)
          => /\ ~state'.interviewState.isComplete
             /\ isNull(state'.interviewState.finalScore)
             /\ isNull(state'.interviewState.summary)]_vars

\* C25: in every reachable state 0 <= currentQuestionIndex <= len(questions),
\* and a submission that would advance when the index already equals
\* len(questions) leaves the index unchanged.
C25_IndexInRange ==
    /\ [](/\ IS.currentQuestionIndex >= 0
          /\ IS.currentQuestionIndex <= Len(IS.questions))
    /\ [][(/\ submitAnswerAnswered
           /\ IS.currentQuestionIndex = Len(IS.questions))
          => state'.interviewState.currentQuestionIndex
                = IS.currentQuestionIndex]_vars

\* C27: every timeout outcome is recorded for the question whose countdown
\* expired: the countdown that ran out was started with the time limit of the
\* question the expiry effect resolves, never with that of the question before.
C27_TimeoutFromOwnCountdown ==
    [][timerExpiredEffect
       => timerLog.d = Arg(currentQuestion.timeLimit)]_vars

\* C28: after a reload that restores a session in progress the countdown is
\* started for the restored question, and the session eventually completes.
C28_ReloadedSessionCompletes ==
    /\ (IS.isStarted /\ ~IS.isComplete /\ ~interviewStarted) ~> timer.isRunning
    /\ (IS.isStarted /\ ~IS.isComplete /\ ~interviewStarted) ~> IS.isComplete

\* C29: once an outcome for the last question is recorded, the session
\* eventually is complete, with finalScore and summary set.
C29_LastOutcomeCompletes ==
    (history.outcomes[6] >= 1)
        ~> (IS.isComplete /\ ~isNull(IS.finalScore) /\ ~isNull(IS.summary))

\* C30: a submission that does not end in a successful scorer response leaves
\* answers, scores and currentQuestionIndex as they are, keeps the typed
\* answer and clears loading, so that Submit reacts again; and no scoring
\* request is ever sent for a blank or whitespace-only answer or without a
\* current question.
C30_FailedSubmissionChangesNothing ==
    /\ [](submitCall # None
            => /\ trim(submitCall.body.answer) # ""
               /\ submitCall.body.question # None)
    /\ [][(submitAnswerAnswered /\ history'.outcomes = history.outcomes)
          => /\ state'.interviewState.answers = IS.answers
             /\ state'.interviewState.scores = IS.scores
             /\ state'.interviewState.currentQuestionIndex = IS.currentQuestionIndex
             /\ currentAnswer' = currentAnswer
             /\ ~loading'
             /\ submitCall' = None]_vars

\* The scoring request for the first question has failed: nothing is
\* recorded, the answer is still in the box and Submit reacts again.
C30_Witness ==
    /\ history.failed = <<0>>
    /\ history.outcomes[1] = 0
    /\ IS.currentQuestionIndex = 0 /\ IS.answers = <<>> /\ IS.scores = <<>>
    /\ currentAnswer = "answer"
    /\ submitEnabled

====
